---- MODULE Spec2Model ----
(***************************************************************************)
(* Model of the services of NodeTriviaQuest: the question cache           *)
(* (server/trivia-api.ts, class TriviaAPIService) and the stock service    *)
(* (server/stockService.ts, class StockService: quote cache and ledger).   *)
(* Each service is a specification of its own over the variables it owns;  *)
(* the steps of one service leave the variables of the others unchanged.   *)
(*                                                                         *)
(* getQuestionsByCategory is an async method: it runs up to its awaited    *)
(* upstream request in one step (GetQuestionsHit, GetQuestionsMiss) and    *)
(* from the arrival of the upstream outcome to its return in a second step *)
(* (FetchSuccess, FetchFailure).  Other calls may run between the two      *)
(* steps.  Time is Date.now() in milliseconds.                             *)
(***************************************************************************)
EXTENDS Integers, Sequences, FiniteSets, Bags, TLC

VARIABLES
    cache,        \* TriviaAPIService.cache : categoryId |-> entry or NoEntry
    now,          \* Date.now()
    inflight,     \* the calls suspended at their await: a bag of [categoryId, limit]
    ret,          \* what the step that led to this state returned to its caller
    quoteCache,   \* StockService.quoteCache : key |-> entry or NoQuote
    quoteInflight,\* the getQuote calls suspended at their await: a bag of [key, started]
    quoteRet,     \* what the last getQuote step returned to its caller
    firstQuote,   \* history: per key, an earlier successful getQuote call that a later one is compared with
    balance,      \* StockService.balance
    portfolio,    \* StockService.portfolio : key |-> address of the position object, or NoAddress
    heap,         \* the position objects: address |-> object or NoObject
    view,         \* the {balance, portfolio} value a caller received last and still holds
    paid,         \* history: per key, the amount paid for the position by buys alone
    trades,       \* the number of trades executed
    ledgerRet,    \* what the last ledger step returned to its caller
    item,         \* transformAPIQuestion: the upstream item being transformed
    shuffledOptions, \* shuffleArray: the array being shuffled
    loop,         \* shuffleArray: the loop variable i, or a position outside the loop
    question,     \* transformAPIQuestion: the Question built
    gameSessions, \* MemStorage.gameSessions : id |-> GameSession, for the ids stored
    issued,       \* the number of ids randomUUID has produced for game sessions
    sessionRet,   \* the response to the last game-session request
    rssPosts,     \* the rows of the table rss_posts, in insertion order
    rssRet        \* the response to the last POST /api/rss/add

triviaVars == <<cache, inflight, ret>>
quoteVars == <<quoteCache, quoteInflight, quoteRet, firstQuote>>
ledgerVars == <<balance, portfolio, heap, view, paid, trades, ledgerRet>>
shuffleVars == <<item, shuffledOptions, loop, question>>
sessionVars == <<gameSessions, issued, sessionRet>>
rssVars == <<rssPosts, rssRet>>
webVars == <<sessionVars, rssVars>>
vars == <<now, triviaVars, quoteVars, ledgerVars, shuffleVars, webVars>>

\* what a step of the question cache leaves alone
stockAndShuffleVars == <<quoteVars, ledgerVars, shuffleVars, webVars>>

(***************************************************************************)
(* Program constants                                                       *)
(***************************************************************************)
CACHE_DURATION == 600000      \* 10 * 60 * 1000 ms
SingleBatchSize == 50         \* cacheSize for limit === 1
MinBatchSize == 20            \* Math.max(limit, 20)
RandomWindow == 20            \* Math.min(cached.length, 20)

(***************************************************************************)
(* Bounds of the model                                                     *)
(***************************************************************************)
MaxPeriods == 4               \* the clock runs up to MaxPeriods * CACHE_DURATION
RandDenom == 2                \* Math.random() takes the values k / RandDenom

\* the clients of the service: each has at most one call in progress
Clients == {"a", "b"}

\* the question pools the provider answers from
Pools == {1, 2}
MaxTime == MaxPeriods * CACHE_DURATION
TickSteps == {CACHE_DURATION}

Min(a, b) == IF a < b THEN a ELSE b
Max(a, b) == IF a > b THEN a ELSE b

(***************************************************************************)
(* Categories.  CATEGORY_MAPPING and fallbackQuestions are object literals *)
(* indexed with obj[categoryId]: a key that is not an own property is      *)
(* looked up on Object.prototype, so "constructor" yields a function (a    *)
(* truthy value that is neither a number nor an array), and any other      *)
(* string yields undefined.                                                *)
(***************************************************************************)
CATEGORY_MAPPING ==
    [general |-> 9, science |-> 17, history |-> 23,
     sports |-> 21, entertainment |-> 11, music |-> 12]

ObjectPrototypeKeys == {"constructor", "toString", "valueOf", "hasOwnProperty"}

\* what CATEGORY_MAPPING[categoryId] evaluates to: a number (own property),
\* an inherited property of Object.prototype (truthy), or undefined
LookupCategory(categoryId) ==
    IF categoryId \in DOMAIN CATEGORY_MAPPING THEN "number"
    ELSE IF categoryId \in ObjectPrototypeKeys THEN "inherited"
    ELSE "undefined"

\* the categoryIds and limits the calls of the model are made with: two
\* mapped categories (two and one fallback questions), a category without
\* mapping, and a property name of Object.prototype
CategoryIds == {"science", "sports", "geography", "constructor"}
Requests ==
    [categoryId : {"science"}, limit : {1, 2, 50}]
        \cup [categoryId : {"sports"}, limit : {50}]
        \cup [categoryId : {"geography"}, limit : {1, 50}]
        \cup [categoryId : {"constructor"}, limit : {1}]

\* a Question: categoryId, the pool it came from (0: hardcoded), position
ApiQuestion(categoryId, pool, i) == <<categoryId, pool, i>>

\* data.results.map(result => transformAPIQuestion(result, categoryId))
ApiBatch(categoryId, pool, n) == [i \in 1..n |-> ApiQuestion(categoryId, pool, i)]

\* number of hand-authored questions per category in getFallbackQuestions
FallbackCount ==
    [science |-> 2, history |-> 2, general |-> 2,
     sports |-> 1, entertainment |-> 1, music |-> 1]

FallbackList(categoryId) ==
    [i \in 1..FallbackCount[categoryId] |-> <<categoryId, 0, i>>]

\* fallbackQuestions[categoryId] || fallbackQuestions.general: the list of the
\* category, or of "general" when the lookup is undefined (an inherited
\* property is truthy and is kept; it is no array)
FallbackIsArray(categoryId) == categoryId \notin ObjectPrototypeKeys

LookupFallback(categoryId) ==
    IF categoryId \in DOMAIN FallbackCount THEN FallbackList(categoryId)
    ELSE FallbackList("general")

\* mutant of Slice: array.slice(0, limit - 1)
SliceOneShort(array, limit) == SubSeq(array, 1, Min(limit - 1, Len(array)))

\* array.slice(0, limit)
Slice(array, limit) == SubSeq(array, 1, Min(limit, Len(array)))

\* Math.floor(Math.random() * m) with Math.random() = k / RandDenom
RandomIndex(k, m) == (k * m) \div RandDenom
RandomDraws == 0..(RandDenom - 1)

\* Math.random() is called for limit === 1 only
Draws(limit) == IF limit = 1 THEN RandomDraws ELSE {0}

(***************************************************************************)
(* Cache entries                                                           *)
(***************************************************************************)
NoEntry == [questions |-> <<>>, timestamp |-> -1, expiry |-> -1]

HasEntry(c, key) == c[key] # NoEntry

\* mutant of getCachedQuestions: an entry counts as expired from now >= expiry
getCachedQuestionsExpiredAtExpiry(key) ==
    IF ~HasEntry(cache, key) THEN [isNull |-> TRUE, questions |-> <<>>]
    ELSE IF now >= cache[key].expiry THEN [isNull |-> TRUE, questions |-> <<>>]
    ELSE [isNull |-> FALSE, questions |-> cache[key].questions]

\* getCachedQuestions: the questions of a present, unexpired entry, or null
\* (null is modelled by the flag isNull)
getCachedQuestions(key) ==
    IF ~HasEntry(cache, key) THEN [isNull |-> TRUE, questions |-> <<>>]
    ELSE IF now > cache[key].expiry THEN [isNull |-> TRUE, questions |-> <<>>]
    ELSE [isNull |-> FALSE, questions |-> cache[key].questions]

\* mutant of cleanupExpiredCache: delete only beyond expiry + 2 * CACHE_DURATION
cleanupExpiredCacheLate(c, t) ==
    [key \in DOMAIN c |->
        IF HasEntry(c, key) /\ t > c[key].expiry + 2 * CACHE_DURATION
        THEN NoEntry ELSE c[key]]

\* mutant of cleanupExpiredCache: delete every expired entry
cleanupExpiredCacheEager(c, t) ==
    [key \in DOMAIN c |->
        IF HasEntry(c, key) /\ t > c[key].expiry
        THEN NoEntry ELSE c[key]]

\* cleanupExpiredCache: delete the entries with now > expiry + CACHE_DURATION
cleanupExpiredCache(c, t) ==
    [key \in DOMAIN c |->
        IF HasEntry(c, key) /\ t > c[key].expiry + CACHE_DURATION
        THEN NoEntry ELSE c[key]]

\* mutant of NewEntry: the expiry is computed with a TTL of one minute
NewEntryOneMinute(questions, t) ==
    [questions |-> questions, timestamp |-> t, expiry |-> t + 60 * 1000]

\* cacheQuestions: set the entry, then sweep
NewEntry(questions, t) ==
    [questions |-> questions, timestamp |-> t, expiry |-> t + CACHE_DURATION]

\* mutant of cacheQuestions: an entry already in the map is kept
cacheQuestionsIfAbsent(c, key, questions, t) ==
    cleanupExpiredCache(IF HasEntry(c, key) THEN c
                        ELSE [c EXCEPT ![key] = NewEntry(questions, t)], t)

cacheQuestions(c, key, questions, t) ==
    cleanupExpiredCache([c EXCEPT ![key] = NewEntry(questions, t)], t)

\* getCacheStats
CacheStats(c, t) ==
    [totalEntries   |-> Cardinality({key \in DOMAIN c : HasEntry(c, key)}),
     validEntries   |-> Cardinality({key \in DOMAIN c : HasEntry(c, key) /\ t <= c[key].expiry}),
     expiredEntries |-> Cardinality({key \in DOMAIN c : HasEntry(c, key) /\ ~(t <= c[key].expiry)})]

(***************************************************************************)
(* Return values.  ret holds what the last step returned: the operation,   *)
(* its arguments, how the upstream request ended ("none": no request was   *)
(* made or the step was no call; "pending": the call is suspended at its   *)
(* await; "ok"; "failed"; "unknown category"), and the value or the error  *)
(* the caller received.                                                    *)
(***************************************************************************)
NoStats == [totalEntries |-> 0, validEntries |-> 0, expiredEntries |-> 0]

NoRet ==
    [op |-> "none", categoryId |-> "", limit |-> 0, upstream |-> "none",
     status |-> "none", questions |-> <<>>, stats |-> NoStats]

Returned(categoryId, limit, upstream, answer) ==
    [op |-> "getQuestionsByCategory", categoryId |-> categoryId, limit |-> limit,
     upstream |-> upstream, status |-> answer.status,
     questions |-> answer.questions, stats |-> NoStats]

Ok(questions) == [status |-> "ok", questions |-> questions]
Thrown(name) == [status |-> name, questions |-> <<>>]
Pending == [status |-> "pending", questions |-> <<>>]

\* mutant of CacheSize: the amount asked for is the limit
CacheSizeIsLimit(limit) == limit

\* const cacheSize = limit === 1 ? 50 : Math.max(limit, 20)
CacheSize(limit) == IF limit = 1 THEN SingleBatchSize ELSE Max(limit, MinBatchSize)

\* cached && cached.length >= limit
IsHit(cached, limit) == ~cached.isNull /\ Len(cached.questions) >= limit

\* mutant of HitAnswer: for limit > 1 the window of limit items starts at a
\* random position
HitAnswerRandomStart(cached, limit, k) ==
    IF limit = 1
    THEN Ok(<<cached[RandomIndex(k, Min(Len(cached), RandomWindow)) + 1]>>)
    ELSE Ok(SubSeq(cached, 1 + k, Min(limit + k, Len(cached))))

\* mutant of HitAnswer: for limit = 1 the index is drawn over the whole batch
HitAnswerWholeBatch(cached, limit, k) ==
    IF limit = 1
    THEN Ok(<<cached[RandomIndex(k, Len(cached)) + 1]>>)
    ELSE Ok(Slice(cached, limit))

\* lines 56-63: the answer from a cache hit
HitAnswer(cached, limit, k) ==
    IF limit = 1
    THEN Ok(<<cached[RandomIndex(k, Min(Len(cached), RandomWindow)) + 1]>>)
    ELSE Ok(Slice(cached, limit))

\* lines 72-78: the answer from a freshly fetched batch
FetchedAnswer(questions, limit, k) ==
    IF limit = 1 /\ Len(questions) > 0
    THEN Ok(<<questions[RandomIndex(k, Len(questions)) + 1]>>)
    ELSE Ok(Slice(questions, limit))

\* lines 86-90: the answer from the entry left in the map, expired or not
StaleAnswer(questions, limit, k) ==
    IF limit = 1
    THEN Ok(<<questions[RandomIndex(k, Min(Len(questions), RandomWindow)) + 1]>>)
    ELSE Ok(Slice(questions, limit))

\* getFallbackQuestions: categoryQuestions.slice(0, limit); slice is not a
\* function when the lookup found an inherited property
getFallbackQuestions(categoryId, limit) ==
    IF ~FallbackIsArray(categoryId)
    THEN Thrown("TypeError")
    ELSE Ok(Slice(LookupFallback(categoryId), limit))

\* mutant of Recover: the entry left in the map is not consulted
RecoverWithoutStale(categoryId, limit, k) == getFallbackQuestions(categoryId, limit)

\* the catch block of getQuestionsByCategory (lines 79-95)
Recover(categoryId, limit, k) ==
    LET fallbackCache == cache[categoryId]
    IN  IF HasEntry(cache, categoryId) /\ Len(fallbackCache.questions) > 0
        THEN StaleAnswer(fallbackCache.questions, limit, k)
        ELSE getFallbackQuestions(categoryId, limit)

(***************************************************************************)
(* The question cache as constructed                                       *)
(***************************************************************************)
TriviaInit ==
    /\ cache = [key \in CategoryIds |-> NoEntry]
    /\ now = 0
    /\ inflight = EmptyBag
    /\ ret = NoRet

\* time passes
Tick(d) ==
    /\ now + d <= MaxTime
    /\ now' = now + d
    /\ ret' = NoRet
    /\ UNCHANGED <<cache, inflight>>
    /\ UNCHANGED stockAndShuffleVars

\* getQuestionsByCategory answered from the cache (lines 49-63)
GetQuestionsHit(categoryId, limit, k) ==
    LET cached == getCachedQuestions(categoryId)
    IN  /\ IsHit(cached, limit)
        /\ ret' = Returned(categoryId, limit, "none",
                           HitAnswer(cached.questions, limit, k))
        /\ UNCHANGED <<cache, now, inflight>>
        /\ UNCHANGED stockAndShuffleVars

\* the upstream request of a call: url.searchParams amount and category
UpstreamRequest(categoryId, limit, amount) ==
    [categoryId |-> categoryId, limit |-> limit, amount |-> amount]

\* mutant of GetQuestionsMiss: single-flight, a call that misses while a
\* request for the category is in flight waits for that request
GetQuestionsMissCoalesced(categoryId, limit) ==
    LET cached == getCachedQuestions(categoryId)
        cacheSize == CacheSize(limit)
        joins == \E r \in BagToSet(inflight) : r.categoryId = categoryId
    IN  /\ ~IsHit(cached, limit)
        /\ LookupCategory(categoryId) # "undefined"
        /\ BagCardinality(inflight) < Cardinality(Clients)
        /\ inflight' = IF joins THEN inflight
                       ELSE inflight (+) SetToBag({UpstreamRequest(categoryId, limit, cacheSize)})
        /\ ret' = Returned(categoryId, limit, IF joins THEN "joined" ELSE "pending", Pending)
        /\ UNCHANGED <<cache, now>>
        /\ UNCHANGED stockAndShuffleVars

\* getQuestionsByCategory up to the awaited upstream request (lines 49-67
\* and 101-114): the category has a mapping, the request is sent
GetQuestionsMiss(categoryId, limit) ==
    LET cached == getCachedQuestions(categoryId)
        cacheSize == CacheSize(limit)
    IN  /\ ~IsHit(cached, limit)
        /\ LookupCategory(categoryId) # "undefined"
        /\ BagCardinality(inflight) < Cardinality(Clients)
        /\ inflight' = inflight (+) SetToBag({UpstreamRequest(categoryId, limit, cacheSize)})
        /\ ret' = Returned(categoryId, limit, "pending", Pending)
        /\ UNCHANGED <<cache, now>>
        /\ UNCHANGED stockAndShuffleVars

\* mutant of GetQuestionsUnknownCategory: the mapping error is rethrown
GetQuestionsUnknownCategoryRethrown(categoryId, limit, k) ==
    LET cached == getCachedQuestions(categoryId)
    IN  /\ ~IsHit(cached, limit)
        /\ LookupCategory(categoryId) = "undefined"
        /\ ret' = Returned(categoryId, limit, "unknown category",
                           Thrown("UnknownCategory"))
        /\ UNCHANGED <<cache, now, inflight>>
        /\ UNCHANGED stockAndShuffleVars

\* getQuestionsByCategory for a category without mapping (lines 49-67,
\* 102-106, 79-95): fetchQuestionsFromAPI throws before any request is sent
\* and the catch block runs; nothing is awaited from outside
GetQuestionsUnknownCategory(categoryId, limit, k) ==
    LET cached == getCachedQuestions(categoryId)
    IN  /\ ~IsHit(cached, limit)
        /\ LookupCategory(categoryId) = "undefined"
        /\ ret' = Returned(categoryId, limit, "unknown category",
                           Recover(categoryId, limit, k))
        /\ UNCHANGED <<cache, now, inflight>>
        /\ UNCHANGED stockAndShuffleVars

\* mutant of ResultSizes: an empty result list counts as a success
ResultSizesWithEmpty(amount) == {0, amount}

\* the sizes of the result list a successful upstream response can carry:
\* the amount asked for (the provider answers a request it cannot fill with
\* response_code 1, which is a failure)
ResultSizes(amount) == {amount}

\* the upstream request succeeds (lines 114-132), then lines 69-78.  The
\* provider answers a category parameter that is no number with an error.
FetchSuccess(r, pool, n, k) ==
    LET questions == ApiBatch(r.categoryId, pool, n)
    IN  /\ BagIn(r, inflight)
        /\ LookupCategory(r.categoryId) = "number"
        /\ n \in ResultSizes(r.amount)
        /\ cache' = cacheQuestions(cache, r.categoryId, questions, now)
        /\ inflight' = inflight (-) SetToBag({r})
        /\ ret' = Returned(r.categoryId, r.limit, "ok",
                           FetchedAnswer(questions, r.limit, k))
        /\ UNCHANGED now
        /\ UNCHANGED stockAndShuffleVars

\* the ways the upstream request fails (lines 114-130)
UpstreamFailures == {"transport", "http status", "response_code", "empty results"}

\* mutant of FetchFailure: the entry served as fallback is deleted
FetchFailureDropsEntry(r, failure, k) ==
    /\ BagIn(r, inflight)
    /\ inflight' = inflight (-) SetToBag({r})
    /\ failure \in UpstreamFailures
    /\ ret' = Returned(r.categoryId, r.limit, "failed",
                       Recover(r.categoryId, r.limit, k))
    /\ cache' = [cache EXCEPT ![r.categoryId] = NoEntry]
    /\ UNCHANGED now
    /\ UNCHANGED stockAndShuffleVars

\* the upstream request fails, then the catch block (lines 79-95)
FetchFailure(r, failure, k) ==
    /\ BagIn(r, inflight)
    /\ inflight' = inflight (-) SetToBag({r})
    /\ failure \in UpstreamFailures
    /\ ret' = Returned(r.categoryId, r.limit, "failed",
                       Recover(r.categoryId, r.limit, k))
    /\ UNCHANGED <<cache, now>>
    /\ UNCHANGED stockAndShuffleVars

\* getCacheStats()
GetCacheStats ==
    /\ ret' = [NoRet EXCEPT !.op = "getCacheStats", !.status = "ok",
                            !.stats = CacheStats(cache, now)]
    /\ UNCHANGED <<cache, now, inflight>>
    /\ UNCHANGED stockAndShuffleVars

\* clearCache()
ClearCache ==
    /\ cache' = [key \in DOMAIN cache |-> NoEntry]
    /\ ret' = [NoRet EXCEPT !.op = "clearCache", !.status = "ok"]
    /\ UNCHANGED <<now, inflight>>
    /\ UNCHANGED stockAndShuffleVars

(***************************************************************************)
(* The quote cache of StockService (getQuote).  getQuote reads the clock   *)
(* and the cache, then awaits the provider: it runs up to the await in one *)
(* step (GetQuoteHit, GetQuoteMiss) and from the arrival of the response   *)
(* to its return in a second step (QuoteFetchSuccess, QuoteFetchFailure).  *)
(***************************************************************************)
cacheTtl == 60000             \* cacheTtlMs = 60_000

MaxQuoteTicks == 3            \* the clock of the quote cache makes up to MaxQuoteTicks steps
QuoteTickStep == cacheTtl \div 2

\* ticker symbols as sequences of characters
Symbols == {<<"a", "b">>, <<"A", "B">>, <<"X">>}

\* String.prototype.toUpperCase on the letters of the model
LowerToUpper == [a |-> "A", b |-> "B", x |-> "X"]

\* mutant of toUpperCase: the symbol is used as the key as it was typed
toUpperCaseAsTyped(s) == s

toUpperCase(s) ==
    [i \in DOMAIN s |-> IF s[i] \in DOMAIN LowerToUpper THEN LowerToUpper[s[i]] ELSE s[i]]

QuoteKeys == {toUpperCase(s) : s \in Symbols}

\* regularMarketPrice values the provider reports
QuotePrices == {100, 110}

\* the first record of data.quoteResponse.result
ProviderQuote(key, price) ==
    [symbol |-> key, regularMarketPrice |-> price, regularMarketChangePercent |-> 0]

NoQuote == [timestamp |-> -1, data |-> [symbol |-> <<>>, price |-> 0, change |-> 0]]
NoData == NoQuote.data

NoQuoteRet ==
    [op |-> "none", symbol |-> <<>>, key |-> <<>>, started |-> 0,
     upstream |-> "none", status |-> "none", data |-> NoData]

QuoteReturned(symbol, key, started, upstream, status, data) ==
    [op |-> "getQuote", symbol |-> symbol, key |-> key, started |-> started,
     upstream |-> upstream, status |-> status, data |-> data]

\* cached && now - cached.timestamp < this.cacheTtl
QuoteIsFresh(cached, t) ==
    cached # NoQuote /\ t - cached.timestamp < cacheTtl

\* history: the successful call later calls for the key are compared with is
\* the earliest one made less than cacheTtl ago
RememberQuote(first, key, data, made, t) ==
    IF first[key].known /\ t - first[key].made < cacheTtl
    THEN first
    ELSE [first EXCEPT ![key] = [known |-> TRUE, data |-> data, made |-> made]]

QuoteInit ==
    /\ quoteCache = [key \in QuoteKeys |-> NoQuote]
    /\ quoteInflight = EmptyBag
    /\ quoteRet = NoQuoteRet
    /\ firstQuote = [key \in QuoteKeys |-> [known |-> FALSE, data |-> NoData, made |-> 0]]

\* what a step of the quote cache leaves alone
notQuoteVars == <<triviaVars, ledgerVars, shuffleVars, webVars>>

\* time passes
QuoteTick ==
    /\ now + QuoteTickStep <= MaxQuoteTicks * QuoteTickStep
    /\ now' = now + QuoteTickStep
    /\ quoteRet' = NoQuoteRet
    /\ UNCHANGED <<quoteCache, quoteInflight, firstQuote>>
    /\ UNCHANGED notQuoteVars

\* getQuote answered from the cache (lines 1068-1073)
GetQuoteHit(symbol) ==
    LET key == toUpperCase(symbol)
        cached == quoteCache[key]
    IN  /\ QuoteIsFresh(cached, now)
        /\ quoteRet' = QuoteReturned(symbol, key, now, "none", "ok", cached.data)
        /\ firstQuote' = RememberQuote(firstQuote, key, cached.data, now, now)
        /\ UNCHANGED <<quoteCache, quoteInflight, now>>
        /\ UNCHANGED notQuoteVars

\* getQuote up to the awaited request (lines 1068-1076)
GetQuoteMiss(symbol) ==
    LET key == toUpperCase(symbol)
        cached == quoteCache[key]
    IN  /\ ~QuoteIsFresh(cached, now)
        /\ BagCardinality(quoteInflight) < Cardinality(Clients)
        /\ quoteInflight' = quoteInflight (+) SetToBag({[key |-> key, started |-> now]})
        /\ quoteRet' = QuoteReturned(symbol, key, now, "pending", "pending", NoData)
        /\ UNCHANGED <<quoteCache, firstQuote, now>>
        /\ UNCHANGED notQuoteVars

\* the response carries a quote record (lines 1077-1091)
QuoteFetchSuccess(r, price) ==
    LET quote == ProviderQuote(r.key, price)
        result == [symbol |-> quote.symbol, price |-> quote.regularMarketPrice,
                   change |-> quote.regularMarketChangePercent]
    IN  /\ BagIn(r, quoteInflight)
        /\ quoteInflight' = quoteInflight (-) SetToBag({r})
        /\ quoteCache' = [quoteCache EXCEPT ![r.key] = [timestamp |-> r.started, data |-> result]]
        /\ quoteRet' = QuoteReturned(<<>>, r.key, r.started, "ok", "ok", result)
        /\ firstQuote' = RememberQuote(firstQuote, r.key, result, r.started, now)
        /\ UNCHANGED now
        /\ UNCHANGED notQuoteVars

\* the ways the request fails and the error getQuote throws: fetch rejects,
\* !response.ok, no first record in quoteResponse.result
QuoteFailures ==
    [rejected |-> "FetchError",
     notOk |-> "Failed to fetch stock data",
     noQuote |-> "Invalid quote response"]

\* mutant of QuoteFetchFailure: a failed request evicts the entry of its key
QuoteFetchFailureDropsEntry(r, failure) ==
    /\ BagIn(r, quoteInflight)
    /\ quoteInflight' = quoteInflight (-) SetToBag({r})
    /\ quoteCache' = [quoteCache EXCEPT ![r.key] = NoQuote]
    /\ quoteRet' = QuoteReturned(<<>>, r.key, r.started, "failed", QuoteFailures[failure], NoData)
    /\ UNCHANGED <<firstQuote, now>>
    /\ UNCHANGED notQuoteVars

\* mutant of QuoteFetchFailure: the entry left in the cache is served
QuoteFetchFailureServesStale(r, failure) ==
    /\ BagIn(r, quoteInflight)
    /\ quoteInflight' = quoteInflight (-) SetToBag({r})
    /\ quoteRet' = IF quoteCache[r.key] # NoQuote
                   THEN QuoteReturned(<<>>, r.key, r.started, "failed", "ok", quoteCache[r.key].data)
                   ELSE QuoteReturned(<<>>, r.key, r.started, "failed", QuoteFailures[failure], NoData)
    /\ UNCHANGED <<quoteCache, firstQuote, now>>
    /\ UNCHANGED notQuoteVars

\* the request fails (lines 1074-1084): the error propagates to the caller
QuoteFetchFailure(r, failure) ==
    /\ BagIn(r, quoteInflight)
    /\ quoteInflight' = quoteInflight (-) SetToBag({r})
    /\ quoteRet' = QuoteReturned(<<>>, r.key, r.started, "failed", QuoteFailures[failure], NoData)
    /\ UNCHANGED <<quoteCache, firstQuote, now>>
    /\ UNCHANGED notQuoteVars

QuoteNext ==
    \/ QuoteTick
    \/ \E symbol \in Symbols : GetQuoteHit(symbol)
    \/ \E symbol \in Symbols : GetQuoteMiss(symbol)
    \/ \E r \in BagToSet(quoteInflight), price \in QuotePrices : QuoteFetchSuccess(r, price)
    \/ \E r \in BagToSet(quoteInflight), failure \in DOMAIN QuoteFailures :
            QuoteFetchFailure(r, failure)

(***************************************************************************)
(* Numbers.  balance, shares, price and avgPrice are IEEE-754 doubles.     *)
(* Integers below 2^53 and their sums, differences and products are exact, *)
(* so amounts that are integers are modelled by integers.  A quotient is   *)
(* rounded to the nearest representable value, ties to even.  avgPrice is  *)
(* modelled as a binary floating-point number <<m, e>> = m * 2^e whose     *)
(* mantissa has MantissaBits bits instead of 53, every operation on it     *)
(* rounding as IEEE-754 does.                                              *)
(***************************************************************************)
MantissaBits == 14

RECURSIVE Pow2(_)
Pow2(n) == IF n = 0 THEN 1 ELSE 2 * Pow2(n - 1)

FloatZero == <<0, 0>>

\* the canonical form: an odd mantissa
RECURSIVE Canonical(_)
Canonical(f) ==
    IF f[1] = 0 THEN FloatZero
    ELSE IF f[1] % 2 = 0 THEN Canonical(<<f[1] \div 2, f[2] + 1>>)
    ELSE f

\* num / (den * 2^e) as a fraction of integers
Scaled(num, den, e) ==
    IF e >= 0 THEN <<num, den * Pow2(e)>> ELSE <<num * Pow2(-e), den>>

\* the largest exponent e <= the one given with
\* 2^(MantissaBits-1) <= num / (den * 2^e)
RECURSIVE FindExponent(_, _, _)
FindExponent(num, den, e) ==
    LET s == Scaled(num, den, e)
    IN  IF s[1] \div s[2] >= Pow2(MantissaBits - 1) THEN e
        ELSE FindExponent(num, den, e - 1)

\* a / b rounded to the nearest integer, ties to even
RoundHalfEven(a, b) ==
    LET q == a \div b
        r == a % b
    IN  IF 2 * r < b THEN q
        ELSE IF 2 * r > b THEN q + 1
        ELSE IF q % 2 = 0 THEN q ELSE q + 1

\* the double nearest to num / den (num >= 0, den > 0)
Round(num, den) ==
    IF num = 0 THEN FloatZero
    ELSE LET e == FindExponent(num, den, MantissaBits)
             s == Scaled(num, den, e)
         IN  Canonical(<<RoundHalfEven(s[1], s[2]), e>>)

\* f as a fraction of integers
Numerator(f) == IF f[2] >= 0 THEN f[1] * Pow2(f[2]) ELSE f[1]
Denominator(f) == IF f[2] >= 0 THEN 1 ELSE Pow2(-f[2])

FloatOfInt(n) == Round(n, 1)

\* f * n, f + n, f / n for a double f and an integer n
FloatTimes(f, n) == Round(Numerator(f) * n, Denominator(f))
FloatPlus(f, n) == Round(Numerator(f) + n * Denominator(f), Denominator(f))
FloatOver(f, n) == Round(Numerator(f), Denominator(f) * n)

\* Overflow.  A number whose magnitude exceeds the largest finite double is
\* Infinity, and Infinity - Infinity is NaN.  MaxFinite stands for the largest
\* finite double (about 1.8e308); Infinity and NaN are encoded by integers
\* outside the range 0..MaxFinite of the finite amounts, and by pairs that
\* are no canonical <<m, e>> for avgPrice.
MaxFinite == 1000000

Infinity == MaxFinite + 1
NaN == 0 - 1
FloatInfinity == <<0, 1>>
FloatNaN == <<0, 2>>

Overflow(n) == IF n > MaxFinite THEN Infinity ELSE n

\* a * b, a + b, a - b and a > b for amounts a, b >= 0, Infinity or NaN
NumTimes(a, b) ==
    IF a = NaN \/ b = NaN THEN NaN
    ELSE IF a = Infinity \/ b = Infinity THEN (IF a = 0 \/ b = 0 THEN NaN ELSE Infinity)
    ELSE Overflow(a * b)

NumPlus(a, b) ==
    IF a = NaN \/ b = NaN THEN NaN
    ELSE IF a = Infinity \/ b = Infinity THEN Infinity
    ELSE Overflow(a + b)

NumMinus(a, b) ==
    IF a = NaN \/ b = NaN THEN NaN
    ELSE IF a = Infinity /\ b = Infinity THEN NaN
    ELSE IF a = Infinity THEN Infinity
    ELSE a - b

NumGreater(a, b) ==
    IF a = NaN \/ b = NaN THEN FALSE ELSE a > b

(***************************************************************************)
(* The ledger of StockService (buy, sell, getPortfolio).  The position     *)
(* records are objects: portfolio maps a key to the address of its record  *)
(* and heap holds the records, so that a value handed to a caller may or   *)
(* may not share records with the ledger.  view is the {balance,           *)
(* portfolio} value a caller holds and may change.                         *)
(***************************************************************************)
initialBalance == 10000       \* new StockService(10000)

MaxTrades == 3                \* the ledger executes up to MaxTrades trades

\* the trades requested: symbol, shares, price (positive integers, as the
\* /api/buy and /api/sell handlers admit them)
Trade(symbol, shares, price) == [symbol |-> symbol, shares |-> shares, price |-> price]

TradeRequests ==
    {Trade(<<"a", "b">>, 10, 100), Trade(<<"A", "B">>, 10, 110),
     Trade(<<"A", "B">>, 5, 100), Trade(<<"a", "b">>, 5, 200),
     Trade(<<"X">>, 1, 5), Trade(<<"X">>, 6, 4),
     Trade(<<"X">>, 100, 100)}

\* the trades of the callers that keep and change the values returned
SnapshotTrades == {Trade(<<"a", "b">>, 10, 100), Trade(<<"X">>, 1, 5)}

LedgerKeys == QuoteKeys

NoAddress == <<"none", <<>>>>
LedgerAddress(key) == <<"ledger", key>>
CopyAddress(key) == <<"copy", key>>
Addresses == {LedgerAddress(key) : key \in LedgerKeys} \cup {CopyAddress(key) : key \in LedgerKeys}

NoObject == [shares |-> -1, avgPrice |-> FloatZero]

NoView == [held |-> FALSE, balance |-> 0, object |-> "none",
           entries |-> [key \in LedgerKeys |-> NoAddress]]

NoLedgerRet ==
    [op |-> "none", key |-> <<>>, shares |-> 0, price |-> 0, status |-> "none", before |-> 0]

LedgerReturned(op, key, shares, price, status) ==
    [op |-> op, key |-> key, shares |-> shares, price |-> price,
     status |-> status, before |-> balance]

LedgerInit ==
    /\ balance = initialBalance
    /\ portfolio = [key \in LedgerKeys |-> NoAddress]
    /\ heap = [a \in Addresses |-> NoObject]
    /\ view = NoView
    /\ paid = [key \in LedgerKeys |-> 0]
    /\ trades = 0
    /\ ledgerRet = NoLedgerRet

\* what a step of the ledger leaves alone
notLedgerVars == <<now, triviaVars, quoteVars, shuffleVars, webVars>>

\* mutant of getPortfolioEntries: the records of the ledger themselves
getPortfolioEntriesShared(pf) == pf

\* getPortfolio: Object.fromEntries(... [sym, { ...position }]): a new map
\* whose records are new objects
getPortfolioEntries(pf) ==
    [key \in LedgerKeys |-> IF pf[key] = NoAddress THEN NoAddress ELSE CopyAddress(key)]

\* the heap after getPortfolio: each new record has the fields of the
\* ledger's record; the records of the value held before are dropped
getPortfolioHeap(pf, h) ==
    [a \in Addresses |->
        IF a[1] = "copy"
        THEN IF pf[a[2]] = NoAddress THEN NoObject ELSE h[pf[a[2]]]
        ELSE h[a]]

\* the caller keeps the value returned (it replaces the one held), or drops it
HeapAfterReturn(keep, pf, h) == IF keep THEN getPortfolioHeap(pf, h) ELSE h
ViewAfterReturn(keep, b, pf) ==
    IF keep
    THEN [held |-> TRUE, balance |-> b, object |-> "copy", entries |-> getPortfolioEntries(pf)]
    ELSE view

\* (holding.avgPrice * holding.shares + cost) / (holding.shares + shares) on
\* finite values
FiniteAveragePrice(avgPrice, shares, bought, cost) ==
    FloatOver(FloatPlus(FloatTimes(avgPrice, shares), cost), shares + bought)

\* mutant of AveragePrice: the plain mean of the old average and the price
AveragePriceUnweighted(avgPrice, shares, bought, cost) ==
    IF shares = 0 THEN FloatOver(FloatOfInt(cost), bought)
    ELSE FloatOver(FloatPlus(avgPrice, cost \div bought), 2)

\* (holding.avgPrice * holding.shares + cost) / (holding.shares + shares)
AveragePrice(avgPrice, shares, bought, cost) ==
    IF cost = NaN \/ avgPrice = FloatNaN THEN FloatNaN
    ELSE IF cost = Infinity \/ avgPrice = FloatInfinity THEN FloatInfinity
    ELSE FiniteAveragePrice(avgPrice, shares, bought, cost)

\* mutant of InsufficientFunds: a cost equal to the balance is refused
InsufficientFundsAtBalance(cost, b) == cost >= b

\* cost > this.balance
InsufficientFunds(cost, b) == NumGreater(cost, b)

\* buy (lines 1098-1112)
buy(t, keep) ==
    LET key == toUpperCase(t.symbol)
        cost == NumTimes(t.shares, t.price)
    IN  IF InsufficientFunds(cost, balance)
        THEN /\ ledgerRet' = LedgerReturned("buy", key, t.shares, t.price, "Not enough funds")
             /\ UNCHANGED <<balance, portfolio, heap, view, paid, trades>>
             /\ UNCHANGED notLedgerVars
        ELSE LET holding == IF portfolio[key] = NoAddress
                            THEN [shares |-> 0, avgPrice |-> FloatZero]
                            ELSE heap[portfolio[key]]
                 updated == [shares |-> holding.shares + t.shares,
                             avgPrice |-> AveragePrice(holding.avgPrice, holding.shares,
                                                       t.shares, cost)]
                 portfolio1 == [portfolio EXCEPT ![key] = LedgerAddress(key)]
                 heap1 == [heap EXCEPT ![LedgerAddress(key)] = updated]
             IN  /\ trades < MaxTrades
                 /\ trades' = trades + 1
                 /\ balance' = NumMinus(balance, cost)
                 /\ portfolio' = portfolio1
                 /\ heap' = HeapAfterReturn(keep, portfolio1, heap1)
                 /\ view' = ViewAfterReturn(keep, NumMinus(balance, cost), portfolio1)
                 /\ paid' = [paid EXCEPT ![key] =
                                IF cost \in {Infinity, NaN} THEN -1
                                ELSE IF holding.shares = 0 THEN cost
                                ELSE IF paid[key] < 0 THEN -1 ELSE paid[key] + cost]
                 /\ ledgerRet' = LedgerReturned("buy", key, t.shares, t.price, "ok")
                 /\ UNCHANGED notLedgerVars

\* mutant of InsufficientShares: selling all the shares held is refused
InsufficientSharesAtHolding(pf, h, key, shares) ==
    pf[key] = NoAddress \/ h[pf[key]].shares <= shares

\* !position || position.shares < shares
InsufficientShares(pf, h, key, shares) ==
    pf[key] = NoAddress \/ h[pf[key]].shares < shares

\* a record the ledger dropped lives on only while the caller's value holds it
Dropped(a) ==
    IF view.held /\ \E key \in LedgerKeys : view.entries[key] = a
    THEN [heap[a] EXCEPT !.shares = 0] ELSE NoObject

\* mutant of RemoveAtZero: a position sold out stays in the portfolio
RemoveAtZeroNever(pf, key, left) == pf

\* if (position.shares === 0) delete this.portfolio[key]
RemoveAtZero(pf, key, left) ==
    IF left = 0 THEN [pf EXCEPT ![key] = NoAddress] ELSE pf

\* sell (lines 1119-1132)
sell(t, keep) ==
    LET key == toUpperCase(t.symbol)
    IN  IF InsufficientShares(portfolio, heap, key, t.shares)
        THEN /\ ledgerRet' = LedgerReturned("sell", key, t.shares, t.price, "Not enough shares")
             /\ UNCHANGED <<balance, portfolio, heap, view, paid, trades>>
             /\ UNCHANGED notLedgerVars
        ELSE LET position == portfolio[key]
                 revenue == NumTimes(t.shares, t.price)
                 left == heap[position].shares - t.shares
                 portfolio1 == RemoveAtZero(portfolio, key, left)
                 heap1 == IF left = 0
                          THEN [heap EXCEPT ![position] = Dropped(position)]
                          ELSE [heap EXCEPT ![position].shares = left]
             IN  /\ trades < MaxTrades
                 /\ trades' = trades + 1
                 /\ balance' = NumPlus(balance, revenue)
                 /\ portfolio' = portfolio1
                 /\ heap' = HeapAfterReturn(keep, portfolio1, heap1)
                 /\ view' = ViewAfterReturn(keep, NumPlus(balance, revenue), portfolio1)
                 /\ paid' = [paid EXCEPT ![key] = IF left = 0 THEN 0 ELSE -1]
                 /\ ledgerRet' = LedgerReturned("sell", key, t.shares, t.price, "ok")
                 /\ UNCHANGED notLedgerVars

\* GET /api/portfolio: { balance: getBalance(), portfolio: getPortfolio() }
GetPortfolio ==
    /\ heap' = HeapAfterReturn(TRUE, portfolio, heap)
    /\ view' = ViewAfterReturn(TRUE, balance, portfolio)
    /\ ledgerRet' = LedgerReturned("getPortfolio", <<>>, 0, 0, "ok")
    /\ UNCHANGED <<balance, portfolio, paid, trades>>
    /\ UNCHANGED notLedgerVars

\* the caller assigns to a field of a position record of the value it holds
CallerSetsShares(key, shares) ==
    /\ view.held
    /\ view.entries[key] # NoAddress
    /\ heap' = [heap EXCEPT ![view.entries[key]].shares = shares]
    /\ ledgerRet' = LedgerReturned("caller", key, shares, 0, "ok")
    /\ UNCHANGED <<balance, portfolio, view, paid, trades>>
    /\ UNCHANGED notLedgerVars

\* the caller deletes a position from the portfolio of the value it holds
CallerDeletesPosition(key) ==
    /\ view.held
    /\ view.entries[key] # NoAddress
    /\ view' = [view EXCEPT !.entries[key] = NoAddress]
    /\ portfolio' = IF view.object = "ledger"
                    THEN [portfolio EXCEPT ![key] = NoAddress] ELSE portfolio
    /\ ledgerRet' = LedgerReturned("caller", key, 0, 0, "ok")
    /\ UNCHANGED <<balance, heap, paid, trades>>
    /\ UNCHANGED notLedgerVars

\* a price whose double is still finite (as 1e308 is)
HugePrice == MaxFinite \div 2 + 1

\* trades at prices near the largest finite number
OverflowTrades ==
    {Trade(<<"X">>, 2, 1), Trade(<<"X">>, 1, HugePrice), Trade(<<"x">>, 2, HugePrice)}

\* the ledger with callers that drop the values returned
LedgerNext ==
    \/ \E t \in TradeRequests : buy(t, FALSE)
    \/ \E t \in TradeRequests : sell(t, FALSE)

\* the ledger with callers that keep the values returned and change them
SnapshotNext ==
    \/ \E t \in SnapshotTrades, keep \in BOOLEAN : buy(t, keep)
    \/ \E t \in SnapshotTrades, keep \in BOOLEAN : sell(t, keep)
    \/ GetPortfolio
    \/ \E key \in LedgerKeys : CallerSetsShares(key, 0)
    \/ \E key \in LedgerKeys : CallerDeletesPosition(key)

(***************************************************************************)
(* transformAPIQuestion and shuffleArray.  Texts are sequences of          *)
(* characters.  The loop of shuffleArray runs one iteration per step.      *)
(***************************************************************************)
\* the characters %XX stands for
PercentCodes == [c \in {<<"4", "1">>, <<"4", "2">>} |-> IF c[2] = "1" THEN "A" ELSE "B"]

\* decodeURIComponent on well-formed input
RECURSIVE decodeURIComponent(_)
decodeURIComponent(s) ==
    IF s = <<>> THEN <<>>
    ELSE IF Head(s) = "%"
         THEN <<PercentCodes[<<s[2], s[3]>>]>> \o decodeURIComponent(SubSeq(s, 4, Len(s)))
         ELSE <<Head(s)>> \o decodeURIComponent(Tail(s))

\* the items of data.results (type multiple: three incorrect answers)
ApiItem(correct, incorrect) == [correct_answer |-> correct, incorrect_answers |-> incorrect]

UpstreamItems ==
    {ApiItem(<<"A">>, << <<"B">>, <<"C">>, <<"D">> >>),
     ApiItem(<<"%", "4", "1">>, << <<"A">>, <<"%", "4", "2">>, <<"C">> >>),
     ApiItem(<<"B">>, << <<"A">>, <<"A">>, <<"C">> >>)}

NoItem == ApiItem(<<>>, <<>>)
NoQuestion == [options |-> <<>>, correctAnswer |-> -1]

\* [correctAnswer, ...incorrectAnswers], decoded
AllOptions(it) ==
    <<decodeURIComponent(it.correct_answer)>>
        \o [i \in DOMAIN it.incorrect_answers |-> decodeURIComponent(it.incorrect_answers[i])]

\* Array.prototype.indexOf (indices from 0, -1 when absent)
indexOf(a, x) ==
    IF \E i \in DOMAIN a : a[i] = x
    THEN (CHOOSE i \in DOMAIN a : a[i] = x /\ \A h \in 1..(i - 1) : a[h] # x) - 1
    ELSE -1

\* mutant of Swap: array[i] = array[j] without the exchange
SwapOverwrites(a, i, j) == [a EXCEPT ![i + 1] = a[j + 1]]

\* [array[i], array[j]] = [array[j], array[i]] (indices from 0)
Swap(a, i, j) == [a EXCEPT ![i + 1] = a[j + 1], ![j + 1] = a[i + 1]]

\* the values of Math.floor(Math.random() * (i + 1))
ShuffleDraws(i) == 0..i

ShuffleInit ==
    /\ item = NoItem
    /\ shuffledOptions = <<>>
    /\ loop = -1
    /\ question = NoQuestion

\* what a step of transformAPIQuestion leaves alone
notShuffleVars == <<now, triviaVars, quoteVars, ledgerVars, webVars>>

\* transformAPIQuestion up to the loop of shuffleArray (lines 138-146, 172)
TransformStart(it) ==
    /\ loop = -1
    /\ item' = it
    /\ shuffledOptions' = AllOptions(it)
    /\ loop' = Len(AllOptions(it)) - 1
    /\ question' = NoQuestion
    /\ UNCHANGED notShuffleVars

\* one iteration of the loop (lines 172-175)
ShuffleStep(j) ==
    /\ loop > 0
    /\ j \in ShuffleDraws(loop)
    /\ shuffledOptions' = Swap(shuffledOptions, loop, j)
    /\ loop' = loop - 1
    /\ UNCHANGED <<item, question>>
    /\ UNCHANGED notShuffleVars

\* the loop has ended: the Question is built (lines 146-165)
TransformFinish ==
    /\ loop = 0
    /\ question' = [options |-> shuffledOptions,
                    correctAnswer |-> indexOf(shuffledOptions, decodeURIComponent(item.correct_answer))]
    /\ loop' = -1
    /\ UNCHANGED <<item, shuffledOptions>>
    /\ UNCHANGED notShuffleVars

ShuffleNext ==
    \/ \E it \in UpstreamItems : TransformStart(it)
    \/ \E j \in 0..3 : ShuffleStep(j)
    \/ TransformFinish

(***************************************************************************)
(* Game sessions: POST, PATCH and DELETE /api/game-sessions over           *)
(* MemStorage.gameSessions.  A request body is a function from the keys it *)
(* carries to their values; every value has the type its schema asks for.  *)
(* Times are numbers, questionResults is given by its length, and          *)
(* categoryId is always present.                                           *)
(***************************************************************************)
MaxSessions == 2              \* randomUUID is called up to MaxSessions times
MaxQuestionResults == 100

\* the bodies whose keys are among those of values, each with one of its values
Bodies(values) ==
    UNION {{b \in [S -> UNION {values[f] : f \in S}] : \A f \in S : b[f] \in values[f]} :
               S \in SUBSET DOMAIN values}

PostBodies ==
    Bodies([totalQuestions |-> {1, 3}, correctAnswers |-> {1, 3}, startTime |-> {1}])

PatchBodies ==
    Bodies([score |-> {-1, 3}, correctAnswers |-> {-1, 1, 3}, endTime |-> {1},
            questionResults |-> {1, MaxQuestionResults + 1}, totalQuestions |-> {1}])

\* the value of key f of a body, or what ?? falls back to
ValueOr(body, f, fallback) == IF f \in DOMAIN body THEN body[f] ELSE fallback

\* insertGameSessionSchema: totalQuestions and startTime are required, the
\* columns with a default or without notNull are optional
insertGameSessionSchema(body) == {"totalQuestions", "startTime"} \subseteq DOMAIN body

\* the keys updateGameSessionSchema declares
UpdateKeys == {"score", "correctAnswers", "endTime", "questionResults"}

\* z.object({...}).strict(): score and correctAnswers at least 0, no other key
updateGameSessionSchema(body) ==
    /\ DOMAIN body \subseteq UpdateKeys
    /\ "score" \in DOMAIN body => body["score"] >= 0
    /\ "correctAnswers" \in DOMAIN body => body["correctAnswers"] >= 0

\* the refinement: data.correctAnswers <= totalQuestions when it is given
createUpdateGameSessionSchema(totalQuestions, body) ==
    /\ updateGameSessionSchema(body)
    /\ "correctAnswers" \in DOMAIN body => body["correctAnswers"] <= totalQuestions

SessionResponse(op, id, status, unknownKey, excess) ==
    [op |-> op, id |-> id, status |-> status, unknownKey |-> unknownKey, excess |-> excess]

SessionInit ==
    /\ gameSessions = << >>
    /\ issued = 0
    /\ sessionRet = SessionResponse("none", 0, 0, FALSE, FALSE)

\* what a game-session request leaves alone
notSessionVars == <<now, triviaVars, quoteVars, ledgerVars, shuffleVars, rssVars>>

\* MemStorage.createGameSession: the session stored under a new id
createGameSession(sessions, id, body) ==
    [i \in DOMAIN sessions \cup {id} |->
        IF i = id
        THEN [totalQuestions |-> body["totalQuestions"],
              score |-> ValueOr(body, "score", 0),
              correctAnswers |-> ValueOr(body, "correctAnswers", 0),
              endTime |-> ValueOr(body, "endTime", 0),
              questionResults |-> ValueOr(body, "questionResults", 0)]
        ELSE sessions[i]]

\* MemStorage.updateGameSession: { ...session, ...updates }
updateGameSession(sessions, id, updates) ==
    [sessions EXCEPT ![id] =
        [f \in DOMAIN sessions[id] |-> ValueOr(updates, f, sessions[id][f])]]

\* MemStorage.deleteGameSession
deleteGameSession(sessions, id) == [i \in DOMAIN sessions \ {id} |-> sessions[i]]

\* POST /api/game-sessions
PostGameSession(body) ==
    /\ IF insertGameSessionSchema(body)
       THEN /\ issued < MaxSessions
            /\ issued' = issued + 1
            /\ gameSessions' = createGameSession(gameSessions, issued + 1, body)
            /\ sessionRet' = SessionResponse("POST", issued + 1, 201, FALSE, FALSE)
       ELSE /\ sessionRet' = SessionResponse("POST", 0, 400, FALSE, FALSE)
            /\ UNCHANGED <<gameSessions, issued>>
    /\ UNCHANGED notSessionVars

\* the checks of the PATCH handler after the schema: questionResults.length > 100
PatchTooLarge(updates) ==
    "questionResults" \in DOMAIN updates /\ updates["questionResults"] > MaxQuestionResults

\* PATCH /api/game-sessions/:sessionId
PatchGameSession(id, body) ==
    /\ IF id \notin DOMAIN gameSessions
       THEN /\ sessionRet' = SessionResponse("PATCH", id, 404, FALSE, FALSE)
            /\ UNCHANGED gameSessions
       ELSE LET existingSession == gameSessions[id]
                unknownKey == ~(DOMAIN body \subseteq UpdateKeys)
                excess == /\ "correctAnswers" \in DOMAIN body
                          /\ body["correctAnswers"] > existingSession.totalQuestions
            IN  IF ~createUpdateGameSessionSchema(existingSession.totalQuestions, body)
                   \/ PatchTooLarge(body)
                THEN /\ sessionRet' = SessionResponse("PATCH", id, 400, unknownKey, excess)
                     /\ UNCHANGED gameSessions
                ELSE /\ gameSessions' = updateGameSession(gameSessions, id, body)
                     /\ sessionRet' = SessionResponse("PATCH", id, 200, unknownKey, excess)
    /\ UNCHANGED issued
    /\ UNCHANGED notSessionVars

\* DELETE /api/game-sessions/:sessionId
DeleteGameSession(id) ==
    /\ IF id \in DOMAIN gameSessions
       THEN /\ gameSessions' = deleteGameSession(gameSessions, id)
            /\ sessionRet' = SessionResponse("DELETE", id, 204, FALSE, FALSE)
       ELSE /\ sessionRet' = SessionResponse("DELETE", id, 404, FALSE, FALSE)
            /\ UNCHANGED gameSessions
    /\ UNCHANGED issued
    /\ UNCHANGED notSessionVars

SessionNext ==
    \/ \E body \in PostBodies : PostGameSession(body)
    \/ \E id \in 1..MaxSessions, body \in PatchBodies : PatchGameSession(id, body)
    \/ \E id \in 1..MaxSessions : DeleteGameSession(id)

(***************************************************************************)
(* POST /api/rss/add: the middleware in front of the handler (express.json,*)
(* multer's upload.single), the handler, and the error handler.            *)
(***************************************************************************)
MaxPosts == 3                 \* up to MaxPosts rows are inserted

\* the value of an environment variable that is not set, of a header that is
\* not sent, of a body field that is not given
Undefined == "undefined"

\* !x for a string or undefined
Falsy(x) == x \in {Undefined, ""}

\* values of process.env.ADMIN_TOKEN and of the x-admin-token header
ConfiguredTokens == {Undefined, "", "secret"}
HeaderTokens == {Undefined, "", "secret", "guess"}

\* requests: a JSON body that parses, one that does not, or a multipart form
\* with no file, a .png image or a .txt file in its image field
RssRequests ==
    {req \in [kind : {"json", "badjson", "multipart"}, upload : {"none", "png", "txt"},
              header : HeaderTokens, title : {Undefined, "t1", "t2"},
              description : {Undefined, "d"}] :
        req.kind # "multipart" => req.upload = "none"}

\* multer's fileFilter: the mime type and the extension are those of an image
fileFilter(upload) == upload = "png"

\* the status the error handler answers with when the middleware in front of
\* the handler fails, or 0 when the request reaches the handler:
\* err.status || err.statusCode || 500
MiddlewareStatus(req) ==
    IF req.kind = "badjson" THEN 400
    ELSE IF req.kind = "multipart" /\ req.upload # "none" /\ ~fileFilter(req.upload) THEN 500
    ELSE 0

RssResponse(configured, req, status) ==
    [op |-> "add", configured |-> configured, header |-> req.header, kind |-> req.kind,
     upload |-> req.upload, status |-> status]

RssInit ==
    /\ rssPosts = << >>
    /\ rssRet = [op |-> "none", configured |-> Undefined, header |-> Undefined,
                 kind |-> "json", upload |-> "none", status |-> 0]

\* what a request to /api/rss/add leaves alone
notRssVars == <<now, triviaVars, quoteVars, ledgerVars, shuffleVars, sessionVars>>

\* mutant of Unauthorized: a request without the header is let through
UnauthorizedWhenDifferent(configuredToken, headerToken) ==
    headerToken # Undefined /\ headerToken # configuredToken

\* !headerToken || headerToken !== configuredToken
Unauthorized(configuredToken, headerToken) ==
    Falsy(headerToken) \/ headerToken # configuredToken

\* the status of the handler's answer (lines 149-203); 200 is the insert
HandlerStatus(configuredToken, req, dbOk) ==
    IF Falsy(configuredToken) THEN 500
    ELSE IF Unauthorized(configuredToken, req.header) THEN 401
    ELSE IF Falsy(req.title) \/ Falsy(req.description) THEN 400
    ELSE IF req.upload # "none" /\ req.upload \notin {"jpg", "jpeg", "png", "gif"} THEN 400
    ELSE IF ~dbOk THEN 500
    ELSE 200

\* POST /api/rss/add with process.env.ADMIN_TOKEN = configuredToken
RssAdd(configuredToken, req, dbOk) ==
    LET status == IF MiddlewareStatus(req) # 0 THEN MiddlewareStatus(req)
                  ELSE HandlerStatus(configuredToken, req, dbOk)
    IN  /\ rssRet' = RssResponse(configuredToken, req, status)
        /\ IF status = 200
           THEN /\ Len(rssPosts) < MaxPosts
                /\ rssPosts' = Append(rssPosts, [title |-> req.title, image |-> req.upload])
           ELSE UNCHANGED rssPosts
        /\ UNCHANGED notRssVars

RssNext ==
    \E configuredToken \in ConfiguredTokens, req \in RssRequests, dbOk \in BOOLEAN :
        RssAdd(configuredToken, req, dbOk)

(***************************************************************************)
(* Initial state: the services as constructed                              *)
(***************************************************************************)
Init ==
    /\ TriviaInit
    /\ QuoteInit
    /\ LedgerInit
    /\ ShuffleInit
    /\ SessionInit
    /\ RssInit

Next ==
    \/ \E d \in TickSteps : Tick(d)
    \/ \E r \in Requests : \E k \in Draws(r.limit) :
            GetQuestionsHit(r.categoryId, r.limit, k)
    \/ \E r \in Requests : GetQuestionsMiss(r.categoryId, r.limit)
    \/ \E r \in Requests : \E k \in Draws(r.limit) :
            GetQuestionsUnknownCategory(r.categoryId, r.limit, k)
    \/ \E r \in BagToSet(inflight), pool \in Pools :
            \E n \in ResultSizes(r.amount), k \in Draws(r.limit) :
                FetchSuccess(r, pool, n, k)
    \/ \E r \in BagToSet(inflight), f \in UpstreamFailures :
            \E k \in Draws(r.limit) : FetchFailure(r, f, k)
    \/ GetCacheStats
    \/ ClearCache

\* concurrent calls: getQuestionsByCategory("science", 2) and getQuote for one
\* key in both letter cases, the clock standing still
ConcurrentSymbols == {<<"a", "b">>, <<"A", "B">>}

ConcurrentNext ==
    \/ GetQuestionsHit("science", 2, 0)
    \/ GetQuestionsMiss("science", 2)
    \/ \E r \in BagToSet(inflight), pool \in Pools : FetchSuccess(r, pool, r.amount, 0)
    \/ \E r \in BagToSet(inflight), failure \in UpstreamFailures : FetchFailure(r, failure, 0)
    \/ \E symbol \in ConcurrentSymbols : GetQuoteHit(symbol)
    \/ \E symbol \in ConcurrentSymbols : GetQuoteMiss(symbol)
    \/ \E r \in BagToSet(quoteInflight), price \in QuotePrices : QuoteFetchSuccess(r, price)
    \/ \E r \in BagToSet(quoteInflight), failure \in DOMAIN QuoteFailures :
            QuoteFetchFailure(r, failure)

\* trades at any valid price, interleaved with quote requests
TradingNext ==
    \/ \E t \in OverflowTrades : buy(t, FALSE)
    \/ \E t \in OverflowTrades : sell(t, FALSE)
    \/ \E symbol \in Symbols : GetQuoteHit(symbol)
    \/ \E symbol \in Symbols : GetQuoteMiss(symbol)
    \/ \E r \in BagToSet(quoteInflight), price \in QuotePrices : QuoteFetchSuccess(r, price)
    \/ \E r \in BagToSet(quoteInflight), failure \in DOMAIN QuoteFailures :
            QuoteFetchFailure(r, failure)

Spec == Init /\ [][Next]_vars

\* the quote cache, the ledger, and transformAPIQuestion on their own
QuoteSpec == Init /\ [][QuoteNext]_vars
LedgerSpec == Init /\ [][LedgerNext]_vars
SnapshotSpec == Init /\ [][SnapshotNext]_vars
ShuffleSpec == Init /\ [][ShuffleNext]_vars

\* calls of both services interleaved at their awaits
ConcurrentSpec == Init /\ [][ConcurrentNext]_vars

\* the ledger and the quote cache of one StockService
TradingSpec == Init /\ [][TradingNext]_vars

\* the game-session routes over MemStorage
SessionSpec == Init /\ [][SessionNext]_vars

\* the route that adds a post to the feed
RssSpec == Init /\ [][RssNext]_vars

(***************************************************************************)
(* Properties                                                              *)
(***************************************************************************)
Range(seq) == {seq[i] : i \in DOMAIN seq}

\* the step that led here was a getQuestionsByCategory call returning to its caller
CallReturned == ret.op = "getQuestionsByCategory" /\ ret.upstream # "pending"

\* the category's entry is present, unexpired and holds at least limit items
Sufficient(categoryId, limit) ==
    /\ HasEntry(cache, categoryId)
    /\ now <= cache[categoryId].expiry
    /\ Len(cache[categoryId].questions) >= limit

\* the first min(n, 20) items of a batch
FirstWindow(questions) == {questions[i] : i \in 1..Min(Len(questions), 20)}

\* the fallback list a category is meant to get: its own, else that of "general"
IntendedFallback(categoryId) ==
    IF categoryId \in DOMAIN FallbackCount
    THEN FallbackList(categoryId) ELSE FallbackList("general")

TenMinutes == 10 * 60 * 1000

\* C1 (as claimed): a call whose upstream request failed completes with a list
\* of questions taken from the entry left in the cache or from the hardcoded
\* fallback, never with an error, for every category and limit.
C1_NeverFailsOnUpstreamFailure ==
    (CallReturned /\ ret.upstream = "failed") =>
        /\ ret.status = "ok"
        /\ \/ /\ HasEntry(cache, ret.categoryId)
              /\ Range(ret.questions) \subseteq Range(cache[ret.categoryId].questions)
           \/ Range(ret.questions) \subseteq Range(IntendedFallback(ret.categoryId))

\* C2 (as claimed): for a mapped category the call returns exactly limit items,
\* or fewer only when the fetch failed, no entry exists for the category and
\* its fallback list has fewer than limit entries.
C2_ExactlyLimitOriginal ==
    (CallReturned /\ LookupCategory(ret.categoryId) = "number" /\ ret.limit \in 1..50) =>
        \/ Len(ret.questions) = ret.limit
        \/ /\ Len(ret.questions) < ret.limit
           /\ ret.upstream = "failed"
           /\ ~HasEntry(cache, ret.categoryId)
           /\ FallbackCount[ret.categoryId] < ret.limit

\* C2 (amended): for a mapped category the call returns min(limit, n) items, n
\* being the length of the list it serves from: the cached batch on a hit
\* (n >= limit), the batch just fetched and stored on fetch success, the entry
\* left in the map when the fetch fails, the fallback list when the fetch
\* fails and no entry exists.
C2_MinOfLimitAndSource ==
    (CallReturned /\ LookupCategory(ret.categoryId) = "number" /\ ret.limit \in 1..50) =>
        /\ ret.status = "ok"
        /\ ret.upstream = "none" => Len(ret.questions) = ret.limit
        /\ ret.upstream = "ok" =>
              Len(ret.questions) = Min(ret.limit, Len(cache[ret.categoryId].questions))
        /\ (ret.upstream = "failed" /\ HasEntry(cache, ret.categoryId)) =>
              Len(ret.questions) = Min(ret.limit, Len(cache[ret.categoryId].questions))
        /\ (ret.upstream = "failed" /\ ~HasEntry(cache, ret.categoryId)) =>
              Len(ret.questions) = Min(ret.limit, FallbackCount[ret.categoryId])

\* C2 witness: a failed fetch answered with fewer than limit items from an
\* entry that exists but is shorter than limit
C2_Witness ==
    /\ CallReturned /\ ret.upstream = "failed" /\ ret.categoryId = "science"
    /\ HasEntry(cache, "science")
    /\ Len(ret.questions) < ret.limit

\* C3 (as claimed): over a step that is no failed fetch, if a call (cat, limit > 1)
\* is a cache hit before and after the step, it returns the same questions in
\* the same order before and after.
C3_HitIdempotentOriginal ==
    [][\A r \in Requests :
          ( /\ r.limit > 1
            /\ IsHit(getCachedQuestions(r.categoryId), r.limit)
            /\ IsHit(getCachedQuestions(r.categoryId), r.limit)'
            /\ ret'.upstream \notin {"failed", "unknown category"} )
          => \A k1, k2 \in RandomDraws :
                HitAnswer(cache'[r.categoryId].questions, r.limit, k1)
                    = HitAnswer(cache[r.categoryId].questions, r.limit, k2)]_vars

\* C3 (amended): over a step that is no successful fetch for the category, if a
\* call (cat, limit > 1) is a cache hit before and after the step, it returns
\* the same questions in the same order before and after, whatever is drawn.
C3_HitIdempotentUnlessRefetched ==
    [][\A r \in Requests :
          ( /\ r.limit > 1
            /\ IsHit(getCachedQuestions(r.categoryId), r.limit)
            /\ IsHit(getCachedQuestions(r.categoryId), r.limit)'
            /\ ~(ret'.upstream = "ok" /\ ret'.categoryId = r.categoryId) )
          => \A k1, k2 \in RandomDraws :
                HitAnswer(cache'[r.categoryId].questions, r.limit, k1)
                    = HitAnswer(cache[r.categoryId].questions, r.limit, k2)]_vars

\* C3 witness: a hit with limit > 1 answered some time after the entry was stored
C3_Witness ==
    /\ CallReturned /\ ret.upstream = "none" /\ ret.limit > 1
    /\ now > cache[ret.categoryId].timestamp
    /\ ret.questions = Slice(cache[ret.categoryId].questions, ret.limit)

\* C4: a call made while the category's entry is unexpired and holds at least
\* limit items is answered from that entry and sends no upstream request; an
\* upstream request is sent (or the mapping consulted) only when it is not.
C4_SharedBatchServesAnyLimit ==
    ret.op = "getQuestionsByCategory" =>
        /\ ret.upstream \in {"pending", "unknown category"} =>
              ~Sufficient(ret.categoryId, ret.limit)
        /\ ret.upstream = "none" =>
              /\ Sufficient(ret.categoryId, ret.limit)
              /\ Len(ret.questions) = ret.limit
              /\ Range(ret.questions) \subseteq Range(cache[ret.categoryId].questions)

\* C4 witness: a hit at the last instant of the TTL window, for fewer items
\* than the batch holds
C4_Witness ==
    /\ CallReturned /\ ret.upstream = "none"
    /\ now = cache[ret.categoryId].expiry
    /\ ret.limit < Len(cache[ret.categoryId].questions)

\* C5: when the fetch fails and an expired entry exists for the category, the
\* call serves from that batch (its first limit items; for limit = 1 one of
\* its first min(n, 20) items) and returns no hardcoded fallback question.
C5_StalePreferredOverFallback ==
    ( /\ CallReturned /\ ret.upstream = "failed"
      /\ HasEntry(cache, ret.categoryId)
      /\ now > cache[ret.categoryId].expiry )
    => /\ ret.status = "ok"
       /\ IF ret.limit = 1
          THEN Len(ret.questions) = 1
                  /\ ret.questions[1] \in FirstWindow(cache[ret.categoryId].questions)
          ELSE ret.questions = Slice(cache[ret.categoryId].questions, ret.limit)
       /\ \A q \in Range(ret.questions) : q[2] # 0

\* C5 witness: a failed fetch answered from an expired entry
C5_Witness ==
    /\ CallReturned /\ ret.upstream = "failed"
    /\ HasEntry(cache, ret.categoryId)
    /\ now > cache[ret.categoryId].expiry
    /\ ret.limit = 1 /\ Len(ret.questions) = 1

\* C6 (as claimed): when the fetch fails (or the category has no mapping) and
\* no entry exists for the category, the call returns the first min(limit, k)
\* questions of the category's fallback list, or of the "general" list when
\* the category has none of its own.
C6_FallbackWhenNoEntry ==
    ( /\ CallReturned /\ ret.upstream \in {"failed", "unknown category"}
      /\ ~HasEntry(cache, ret.categoryId) )
    => /\ ret.status = "ok"
       /\ ret.questions = Slice(IntendedFallback(ret.categoryId), ret.limit)

\* C7 (as claimed): a call for a category without provider mapping reports the
\* UnknownCategory error to its caller.
C7_UnknownCategoryPropagatedOriginal ==
    (CallReturned /\ LookupCategory(ret.categoryId) = "undefined") =>
        ret.status = "UnknownCategory"

\* C7 (amended): a call for a category whose mapping lookup yields nothing sends
\* no upstream request and reports no error: the error thrown at the mapping
\* stage is caught by the same recovery as upstream failures and the call
\* returns the first min(limit, 2) questions of the "general" fallback list.
C7_UnknownCategoryRecovered ==
    (ret.op = "getQuestionsByCategory" /\ LookupCategory(ret.categoryId) = "undefined") =>
        /\ ret.upstream = "unknown category"
        /\ ret.status = "ok"
        /\ ret.questions = Slice(FallbackList("general"), ret.limit)

\* C7 witness: a call for "geography" answered with both "general" questions
C7_Witness ==
    /\ CallReturned /\ ret.categoryId = "geography" /\ ret.limit = 50
    /\ Len(ret.questions) = 2

\* C8 (as claimed): getCacheStats() does not count an entry whose expiry lies
\* more than 2 x TTL in the past.
C8_StatsOmitStaleOriginal ==
    ret.op = "getCacheStats" =>
        /\ ret.stats.totalEntries =
              Cardinality({key \in DOMAIN cache :
                  HasEntry(cache, key) /\ ~(now > cache[key].expiry + 2 * TenMinutes)})
        /\ ret.stats.expiredEntries =
              Cardinality({key \in DOMAIN cache :
                  /\ HasEntry(cache, key) /\ now > cache[key].expiry
                  /\ ~(now > cache[key].expiry + 2 * TenMinutes)})

\* C8 (amended): entries are purged only by the sweep a successful fetch runs.
\* Right after a successful fetch no entry is left whose expiry lies more than
\* 1 x TTL in the past; getCacheStats() counts every entry of the map, so an
\* entry no successful fetch has swept stays counted however old it is.
C8_PurgedBySweepOnly ==
    /\ (CallReturned /\ ret.upstream = "ok") =>
          \A key \in DOMAIN cache :
              HasEntry(cache, key) => ~(now > cache[key].expiry + TenMinutes)
    /\ ret.op = "getCacheStats" =>
          /\ ret.stats.totalEntries =
                Cardinality({key \in DOMAIN cache : HasEntry(cache, key)})
          /\ ret.stats.expiredEntries =
                Cardinality({key \in DOMAIN cache :
                    HasEntry(cache, key) /\ now > cache[key].expiry})
          /\ ret.stats.validEntries + ret.stats.expiredEntries = ret.stats.totalEntries

\* C8 witness: getCacheStats() counting an entry more than 2 x TTL past its expiry
C8_Witness ==
    /\ ret.op = "getCacheStats" /\ ret.stats.expiredEntries >= 1
    /\ \E key \in DOMAIN cache :
          HasEntry(cache, key) /\ now > cache[key].expiry + 2 * TenMinutes

\* C9 (as claimed): an entry leaves the map (other than by clearCache) only
\* when the current time is more than 2 x TTL past its expiry.
C9_SweepThresholdOriginal ==
    [][\A key \in DOMAIN cache :
          (HasEntry(cache, key) /\ ~HasEntry(cache', key) /\ ret'.op # "clearCache")
              => now > cache[key].expiry + 2 * TenMinutes]_vars

\* C9 (amended): an entry leaves the map (other than by clearCache) only when
\* the current time is more than 1 x TTL past its expiry, that is more than
\* 2 x TTL after it was stored; an entry expired by at most 1 x TTL stays.
C9_SweepThreshold ==
    [][\A key \in DOMAIN cache :
          (HasEntry(cache, key) /\ ~HasEntry(cache', key) /\ ret'.op # "clearCache")
              => /\ now > cache[key].expiry + TenMinutes
                 /\ now > cache[key].timestamp + 2 * TenMinutes
                 /\ ret'.upstream = "ok"]_vars

\* C9 witness: a sweep has just run and an entry expired by exactly 1 x TTL is kept
C9_Witness ==
    /\ CallReturned /\ ret.upstream = "ok"
    /\ \E key \in DOMAIN cache :
          /\ key # ret.categoryId /\ HasEntry(cache, key)
          /\ now = cache[key].expiry + TenMinutes

\* C10: every entry of the question cache has expiry = timestamp + 10 minutes
C10_ExpiryIsTimestampPlusTTL ==
    \A key \in DOMAIN cache :
        HasEntry(cache, key) => cache[key].expiry = cache[key].timestamp + TenMinutes

\* C10 witness: an entry stored after the clock has advanced
C10_Witness ==
    \E key \in DOMAIN cache : HasEntry(cache, key) /\ cache[key].timestamp > 0

(***************************************************************************)
(* Properties of the quote cache (QuoteSpec)                               *)
(***************************************************************************)
\* the step is a getQuote call being made (answered at once or suspended)
QuoteCallMade == quoteRet'.op = "getQuote" /\ quoteRet'.upstream \in {"none", "pending"}

\* the step is a getQuote call returning after its request
QuoteCallCompleted == quoteRet'.op = "getQuote" /\ quoteRet'.upstream \in {"ok", "failed"}

\* C11 (as claimed): a getQuote call made less than TTL after an earlier
\* successful call for the same symbol (in any letter case) was made does not
\* invoke the provider and returns the value the earlier call returned.
C11_SecondCallWithinTtlOriginal ==
    [][( /\ QuoteCallMade
         /\ firstQuote[quoteRet'.key].known
         /\ now - firstQuote[quoteRet'.key].made < 60000 )
       => /\ quoteRet'.upstream = "none"
          /\ quoteRet'.data = firstQuote[quoteRet'.key].data]_vars

\* C11 (amended): the entry of a key is written only by a getQuote call that
\* completes a successful request for it, with the value the call returns and
\* the time the call was made (before its request) as storedAt; a call for a
\* symbol whose uppercased key has an entry less than TTL old invokes no
\* provider and returns the entry's value.  So a second call returns the first
\* call's result when it is made less than TTL after the first call was made
\* and no other request for the key has completed in between.
C11_HitOnEntryOfLastCompletedFetch ==
    [][/\ QuoteCallMade =>
            /\ Len(quoteRet'.key) = Len(quoteRet'.symbol)
            /\ \A i \in DOMAIN quoteRet'.key :
                  /\ quoteRet'.key[i] \notin {"a", "b", "x"}
                  /\ quoteRet'.symbol[i] \in {"a", "A"} => quoteRet'.key[i] = "A"
                  /\ quoteRet'.symbol[i] \in {"b", "B"} => quoteRet'.key[i] = "B"
            /\ ( /\ quoteCache[quoteRet'.key] # NoQuote
                 /\ now - quoteCache[quoteRet'.key].timestamp < 60000 )
               => /\ quoteRet'.upstream = "none"
                  /\ quoteRet'.status = "ok"
                  /\ quoteRet'.data = quoteCache[quoteRet'.key].data
       /\ \A key \in QuoteKeys :
            quoteCache'[key] # quoteCache[key] =>
                /\ quoteRet'.upstream = "ok" /\ quoteRet'.key = key
       /\ (QuoteCallCompleted /\ quoteRet'.upstream = "ok") =>
            /\ quoteRet'.status = "ok"
            /\ quoteCache'[quoteRet'.key] =
                  [timestamp |-> quoteRet'.started, data |-> quoteRet'.data]]_vars

\* C11 witness: a call in lower case answered from the entry stored by a call
\* that was made earlier than its response arrived
C11_Witness ==
    /\ quoteRet.op = "getQuote" /\ quoteRet.upstream = "none"
    /\ quoteRet.symbol = <<"a", "b">>
    /\ quoteCache[<<"A", "B">>].timestamp = 0
    /\ now = 30000
    /\ quoteRet.data = quoteCache[<<"A", "B">>].data

\* C12: getQuote returns a cached value only when the entry exists and
\* now - storedAt < TTL; otherwise it sends a request to the provider, and
\* when that request fails the call fails with an error, returns no value and
\* leaves the quote cache unchanged.
C12_NoStaleQuote ==
    [][/\ QuoteCallMade =>
            IF quoteCache[quoteRet'.key] # NoQuote
                  /\ now - quoteCache[quoteRet'.key].timestamp < 60000
            THEN quoteRet'.upstream = "none"
            ELSE /\ quoteRet'.upstream = "pending"
                 /\ quoteRet'.data = NoData
                 /\ BagCardinality(quoteInflight') = BagCardinality(quoteInflight) + 1
       /\ (QuoteCallCompleted /\ quoteRet'.upstream = "failed") =>
            /\ quoteRet'.status \notin {"ok", "pending", "none"}
            /\ quoteRet'.data = NoData
            /\ quoteCache' = quoteCache]_vars

\* C12 witness: a failed request for a key whose entry is TTL old or older
C12_Witness ==
    /\ quoteRet.op = "getQuote" /\ quoteRet.upstream = "failed"
    /\ quoteCache[quoteRet.key] # NoQuote
    /\ now - quoteCache[quoteRet.key].timestamp >= 60000
    /\ quoteRet.status = "Invalid quote response"

(***************************************************************************)
(* Properties of the ledger (LedgerSpec)                                   *)
(***************************************************************************)
\* the position records of the ledger, by key
Positions(pf, h) ==
    [key \in LedgerKeys |-> IF pf[key] = NoAddress THEN NoObject ELSE h[pf[key]]]

\* the shares the ledger holds of a key, 0 without a position
SharesHeld(pf, h, key) == IF pf[key] = NoAddress THEN 0 ELSE h[pf[key]].shares

\* C13: buy(symbol, shares, price) fails with "Not enough funds" exactly when
\* shares*price > balance, and then balance and every position are unchanged;
\* otherwise it succeeds, balance decreases by shares*price, the shares of the
\* position increase by shares and the other positions are unchanged.
C13_BuyFundsCheck ==
    [][ledgerRet'.op = "buy" =>
          LET key == ledgerRet'.key
              cost == ledgerRet'.shares * ledgerRet'.price
          IN  IF cost > balance
              THEN /\ ledgerRet'.status = "Not enough funds"
                   /\ balance' = balance
                   /\ portfolio' = portfolio
                   /\ Positions(portfolio', heap') = Positions(portfolio, heap)
              ELSE /\ ledgerRet'.status = "ok"
                   /\ balance' = balance - cost
                   /\ portfolio'[key] # NoAddress
                   /\ SharesHeld(portfolio', heap', key) =
                          SharesHeld(portfolio, heap, key) + ledgerRet'.shares
                   /\ \A other \in LedgerKeys \ {key} :
                          Positions(portfolio', heap')[other] = Positions(portfolio, heap)[other]]_vars

\* C13 witness: a buy whose cost equals the balance has succeeded (balance 0,
\* 100 shares of X) and the next buy has failed
C13_Witness ==
    /\ ledgerRet.op = "buy" /\ ledgerRet.status = "Not enough funds"
    /\ balance = 0
    /\ SharesHeld(portfolio, heap, <<"X">>) = 100

\* C14: sell(symbol, shares, price) fails with "Not enough shares" exactly
\* when the key has no position or the position holds fewer than shares, and
\* then balance and portfolio are unchanged; otherwise it succeeds, balance
\* increases by shares*price, the position's shares decrease by shares, the
\* position is removed when they reach zero and kept otherwise, and the other
\* positions are unchanged.
C14_SellSharesCheck ==
    [][ledgerRet'.op = "sell" =>
          LET key == ledgerRet'.key
              held == SharesHeld(portfolio, heap, key)
          IN  IF portfolio[key] = NoAddress \/ held < ledgerRet'.shares
              THEN /\ ledgerRet'.status = "Not enough shares"
                   /\ balance' = balance
                   /\ portfolio' = portfolio
                   /\ Positions(portfolio', heap') = Positions(portfolio, heap)
              ELSE /\ ledgerRet'.status = "ok"
                   /\ balance' = balance + ledgerRet'.shares * ledgerRet'.price
                   /\ IF held = ledgerRet'.shares
                      THEN portfolio'[key] = NoAddress
                      ELSE /\ portfolio'[key] # NoAddress
                           /\ Positions(portfolio', heap')[key] =
                                 [Positions(portfolio, heap)[key]
                                     EXCEPT !.shares = held - ledgerRet'.shares]
                   /\ \A other \in LedgerKeys \ {key} :
                          Positions(portfolio', heap')[other] = Positions(portfolio, heap)[other]]_vars

\* C14 witness: the sale of 5 of the 10 shares of a position has left the
\* position in place with 5 shares, and a sale of 10 has then been refused
C14_Witness ==
    /\ ledgerRet.op = "sell" /\ ledgerRet.status = "Not enough shares"
    /\ ledgerRet.key = <<"A", "B">> /\ ledgerRet.shares = 10
    /\ SharesHeld(portfolio, heap, <<"A", "B">>) = 5
    /\ balance = 9500

\* the double f is the fraction num / den exactly
FloatIs(f, num, den) == Numerator(f) * den = num * Denominator(f)

C16_BuyThenSellRoundTrip ==
    [][/\ ( /\ ledgerRet.op = "buy" /\ ledgerRet.status = "ok"
            /\ SharesHeld(portfolio, heap, ledgerRet.key) = ledgerRet.shares
            /\ ledgerRet'.op = "sell"
            /\ ledgerRet'.key = ledgerRet.key
            /\ ledgerRet'.shares = ledgerRet.shares )
          => /\ ledgerRet'.status = "ok"
             /\ balance = ledgerRet.before - ledgerRet.shares * ledgerRet.price
             /\ balance' = ledgerRet.before - ledgerRet.shares * ledgerRet.price
                               + ledgerRet.shares * ledgerRet'.price
             /\ portfolio'[ledgerRet.key] = NoAddress
             /\ Positions(portfolio', heap')[ledgerRet.key] = NoObject
       /\ (ledgerRet'.op \in {"buy", "sell"}) =>
             \A other \in LedgerKeys \ {ledgerRet'.key} :
                 Positions(portfolio', heap')[other] = Positions(portfolio, heap)[other]]_vars

\* C16 witness: from 10000, 10 bought at 100 and sold at 110 with another
\* position held: balance 10100 less the 5 paid for X, no position in AB
C16_Witness ==
    /\ ledgerRet.op = "sell" /\ ledgerRet.status = "ok"
    /\ ledgerRet.key = <<"A", "B">> /\ ledgerRet.shares = 10 /\ ledgerRet.price = 110
    /\ balance = 10100 - 5
    /\ portfolio[<<"A", "B">>] = NoAddress
    /\ SharesHeld(portfolio, heap, <<"X">>) = 1

(***************************************************************************)
(* Properties of the values the ledger returns (SnapshotSpec)              *)
(***************************************************************************)
\* the contents of a {balance, portfolio} value: the balance and, by key, the
\* fields of the position records
Contents(b, entries, h) ==
    [balance |-> b,
     portfolio |-> [key \in LedgerKeys |->
                       IF entries[key] = NoAddress THEN NoObject ELSE h[entries[key]]]]

\* the value a caller holds has no object in common with the ledger
NothingShared ==
    view.held =>
        /\ view.object # "ledger"
        /\ \A key, other \in LedgerKeys :
              view.entries[key] # NoAddress => view.entries[key] # portfolio[other]

\* C17: the value returned by buy, sell and getPortfolio has the contents of
\* the ledger at the return and shares no object with it: what a caller does
\* to the portfolio it holds or to a record in it leaves the ledger's balance
\* and positions unchanged, and a later buy or sell leaves the contents of a
\* value returned earlier unchanged.
C17_ReturnedValueIsSnapshot ==
    [][/\ NothingShared'
       /\ ledgerRet'.op = "caller" =>
             /\ balance' = balance
             /\ portfolio' = portfolio
             /\ Positions(portfolio', heap') = Positions(portfolio, heap)
       /\ ledgerRet'.op = "getPortfolio" =>
             /\ view'.held
             /\ Contents(view'.balance, view'.entries, heap') = Contents(balance, portfolio, heap)
       /\ (ledgerRet'.op \in {"buy", "sell"} /\ view.held) =>
             \/ Contents(view'.balance, view'.entries, heap')
                    = Contents(view.balance, view.entries, heap)
             \/ Contents(view'.balance, view'.entries, heap')
                    = Contents(balance', portfolio', heap')]_vars

\* C17 witness: a caller has set the shares of AB to 0 in the value a buy
\* returned, the ledger has bought X since, and the ledger still holds 10
\* shares of AB while the caller's value holds its own contents
C17_Witness ==
    /\ view.held
    /\ ledgerRet.op = "buy" /\ ledgerRet.status = "ok" /\ ledgerRet.key = <<"X">>
    /\ view.entries[<<"X">>] = NoAddress
    /\ view.entries[<<"A", "B">>] # NoAddress
    /\ heap[view.entries[<<"A", "B">>]].shares = 0
    /\ SharesHeld(portfolio, heap, <<"A", "B">>) = 10
    /\ view.balance = 9000 /\ balance = 8995

(***************************************************************************)
(* Properties of transformAPIQuestion (ShuffleSpec)                        *)
(***************************************************************************)
\* the number of occurrences of x in the array a
Occurrences(a, x) == Cardinality({i \in DOMAIN a : a[i] = x})

\* a is a rearrangement of b
IsPermutation(a, b) ==
    /\ Len(a) = Len(b)
    /\ \A i \in DOMAIN b : Occurrences(a, b[i]) = Occurrences(b, b[i])

\* C18: whatever values the shuffle draws, the options of a Question built
\* from an upstream item are a permutation of [correct, ...incorrect] (decoded)
\* and options[correctAnswer] is the decoded correct answer.
C18_ShuffleKeepsCorrectAnswer ==
    /\ loop >= 0 => IsPermutation(shuffledOptions, AllOptions(item))
    /\ question # NoQuestion =>
          /\ IsPermutation(question.options, AllOptions(item))
          /\ question.correctAnswer \in 0..(Len(question.options) - 1)
          /\ question.options[question.correctAnswer + 1]
                = decodeURIComponent(item.correct_answer)

\* C18 witness: a Question whose correct answer was sent percent-encoded and
\* equals one of the incorrect answers, shuffled to the end of the options
C18_Witness ==
    /\ question # NoQuestion
    /\ item.correct_answer = <<"%", "4", "1">>
    /\ question.options = << <<"C">>, <<"B">>, <<"A">>, <<"A">> >>
    /\ question.correctAnswer = 2

(***************************************************************************)
(* Properties of concurrent calls (ConcurrentSpec)                         *)
(***************************************************************************)
\* the step is a getQuestionsByCategory call being made (answered without
\* waiting for the provider, or suspended at its await)
QuestionsCallMade ==
    ret'.op = "getQuestionsByCategory" /\ ret'.upstream \notin {"ok", "failed"}

\* the requests in flight for a category
InFlightFor(bag, categoryId) ==
    BagCardinality([r \in {q \in BagToSet(bag) : q.categoryId = categoryId} |-> bag[r]])

\* the requests in flight for a quote key
QuotesInFlightFor(bag, key) ==
    BagCardinality([r \in {q \in BagToSet(bag) : q.key = key} |-> bag[r]])

\* C19: a getQuestionsByCategory call that misses the cache sends its own
\* upstream request whether or not requests for the category are in flight,
\* and so does a getQuote call for its key; every request that completes
\* successfully overwrites the entry of its key with what it fetched.
C19_NoSingleFlight ==
    [][/\ ( /\ triviaVars' # triviaVars
            /\ QuestionsCallMade
            /\ ~IsHit(getCachedQuestions(ret'.categoryId), ret'.limit)
            /\ LookupCategory(ret'.categoryId) # "undefined" )
          => /\ ret'.upstream = "pending"
             /\ InFlightFor(inflight', ret'.categoryId)
                    = InFlightFor(inflight, ret'.categoryId) + 1
       /\ ( /\ quoteVars' # quoteVars
            /\ QuoteCallMade
            /\ ~( /\ quoteCache[quoteRet'.key] # NoQuote
                  /\ now - quoteCache[quoteRet'.key].timestamp < 60000 ) )
          => /\ quoteRet'.upstream = "pending"
             /\ QuotesInFlightFor(quoteInflight', quoteRet'.key)
                    = QuotesInFlightFor(quoteInflight, quoteRet'.key) + 1
       /\ ( /\ triviaVars' # triviaVars
            /\ ret'.op = "getQuestionsByCategory" /\ ret'.upstream = "ok" )
          => /\ cache'[ret'.categoryId].timestamp = now
             /\ Len(cache'[ret'.categoryId].questions) >= ret'.limit
             /\ ret'.questions = SubSeq(cache'[ret'.categoryId].questions, 1, ret'.limit)
       /\ ( /\ quoteVars' # quoteVars
            /\ QuoteCallCompleted /\ quoteRet'.upstream = "ok" )
          => quoteCache'[quoteRet'.key] =
                 [timestamp |-> quoteRet'.started, data |-> quoteRet'.data]]_vars

\* C19 witness: two requests in flight for one category and two for one quote
\* key
C19_Witness ==
    /\ InFlightFor(inflight, "science") = 2
    /\ QuotesInFlightFor(quoteInflight, <<"A", "B">>) = 2
    /\ ret.upstream = "pending" /\ quoteRet.upstream = "pending"

(***************************************************************************)
(* Properties of the batch size (Spec)                                     *)
(***************************************************************************)
\* C20: whenever a call has to ask the provider, the amount it requests is 50
\* for limit = 1 and max(limit, 20) otherwise, for every limit in 1..50.
C20_AmountRequested ==
    /\ \A r \in BagToSet(inflight) :
          r.amount = IF r.limit = 1 THEN 50 ELSE IF r.limit > 20 THEN r.limit ELSE 20
    /\ ret.upstream = "pending" =>
          \E r \in BagToSet(inflight) :
              r.categoryId = ret.categoryId /\ r.limit = ret.limit
    /\ \A limit \in 1..50 :
          CacheSize(limit) = IF limit = 1 THEN 50 ELSE IF limit > 20 THEN limit ELSE 20

\* C20 witness: a request of 50 for limit 1 and one of 20 for limit 2 in flight
C20_Witness ==
    /\ \E r \in BagToSet(inflight) : r.limit = 1 /\ r.amount = 50
    /\ \E r \in BagToSet(inflight) : r.limit = 2 /\ r.amount = 20

(***************************************************************************)
(* Properties of the answer after a fetch (Spec)                           *)
(***************************************************************************)
\* C21: after a successful fetch the answer follows the policy of a cache
\* hit on the batch just stored: for limit = 1 one of the first min(n, 20)
\* items of the batch of n items, for limit > 1 the first limit items.
C21_FetchedAnswerFollowsHitPolicy ==
    (ret.op = "getQuestionsByCategory" /\ ret.upstream = "ok") =>
        LET batch == cache[ret.categoryId].questions
        IN  /\ ret.status = "ok"
            /\ IF ret.limit = 1
               THEN \E i \in 1..Min(Len(batch), 20) : ret.questions = <<batch[i]>>
               ELSE ret.questions = SubSeq(batch, 1, Min(ret.limit, Len(batch)))

(***************************************************************************)
(* Properties of the single-question draw (Spec)                           *)
(***************************************************************************)
\* Math.floor(x * m) for the random value x = k / d
IndexDrawn(k, d, m) == (k * m) \div d

\* C22: a call with limit = 1 answered from the cache returns one of the
\* first min(n, 20) items of the cached batch of n items and never an item at
\* index 20 or beyond; every index below min(n, 20) is the index drawn for
\* some random value in [0, 1).
C22_HitDrawsWithinWindow ==
    /\ (ret.op = "getQuestionsByCategory" /\ ret.upstream = "none" /\ ret.limit = 1) =>
          LET batch == cache[ret.categoryId].questions
          IN  /\ ret.status = "ok"
              /\ \E i \in 1..Min(Len(batch), 20) : ret.questions = <<batch[i]>>
              /\ \A i \in 21..Len(batch) : ret.questions # <<batch[i]>>
    /\ \A m \in 1..20 :
          /\ \A k \in RandomDraws :
                /\ RandomIndex(k, m) = IndexDrawn(k, RandDenom, m)
                /\ RandomIndex(k, m) \in 0..(m - 1)
          /\ \A i \in 0..(m - 1) : \E k \in 0..(m - 1) : IndexDrawn(k, m, m) = i

\* C22 witness: a draw from a cached batch of 50 that returned another item
\* than the first
C22_Witness ==
    /\ ret.op = "getQuestionsByCategory" /\ ret.upstream = "none" /\ ret.limit = 1
    /\ Len(cache[ret.categoryId].questions) = 50
    /\ ret.questions # <<cache[ret.categoryId].questions[1]>>

(***************************************************************************)
(* Properties of the writes to the question cache (Spec)                   *)
(***************************************************************************)
\* the step is a getQuestionsByCategory call returning after its request
\* succeeded
FetchCompleted ==
    ret'.op = "getQuestionsByCategory" /\ ret'.upstream = "ok" /\ inflight' # inflight

\* C23: every successful fetch sets the entry of its category to the batch
\* just fetched with timestamp now and expiry now + 10 minutes, whether the
\* entry was absent, fresh or expired before, then sweeps the other entries
\* (those with now > expiry + 10 minutes are deleted, the others kept); the
\* entry just stored is present after the sweep.
C23_FetchReplacesEntryThenSweeps ==
    [][FetchCompleted =>
          LET stored == cache'[ret'.categoryId]
          IN  /\ stored # NoEntry
              /\ stored.timestamp = now /\ stored.expiry = now + 600000
              /\ \E r \in BagToSet(inflight) :
                    /\ r.categoryId = ret'.categoryId
                    /\ Len(stored.questions) = r.amount
              /\ \E pool \in Pools :
                    stored.questions = ApiBatch(ret'.categoryId, pool, Len(stored.questions))
              /\ \A i \in DOMAIN ret'.questions :
                    \E h \in DOMAIN stored.questions : ret'.questions[i] = stored.questions[h]
              /\ \A key \in DOMAIN cache \ {ret'.categoryId} :
                    cache'[key] = IF cache[key] # NoEntry /\ now > cache[key].expiry + 600000
                                  THEN NoEntry ELSE cache[key]]_vars

\* C23 witness: a fetch has replaced an entry by a batch of another pool
\* while the entry of another category, not yet stale enough, was kept
C23_Witness ==
    /\ ret.op = "getQuestionsByCategory" /\ ret.upstream = "ok"
    /\ ret.categoryId = "science"
    /\ cache["science"].timestamp = now /\ now >= 1200000
    /\ cache["science"].questions[1][2] = 2
    /\ HasEntry(cache, "sports") /\ cache["sports"].timestamp < now

\* C24: an entry of the question cache is created or replaced only by a
\* call completing a successful fetch for its category, and removed only by
\* the sweep of such a call (when stale by more than 10 minutes past its
\* expiry) or by clearCache; a call answered from the cache, a call whose
\* fetch fails, a call suspended at its await and a call for a category
\* without mapping leave the cache map unchanged.
C24_CacheWrittenByFetchSuccessOnly ==
    [][/\ \A key \in DOMAIN cache :
             /\ (cache'[key] # NoEntry /\ cache'[key] # cache[key]) =>
                    (FetchCompleted /\ ret'.categoryId = key)
             /\ (cache[key] # NoEntry /\ cache'[key] = NoEntry) =>
                    \/ ret'.op = "clearCache"
                    \/ FetchCompleted /\ ret'.categoryId # key
                          /\ now > cache[key].expiry + 600000
       /\ ( /\ ret'.op = "getQuestionsByCategory"
            /\ ret'.upstream \in {"none", "pending", "failed", "unknown category"} )
          => cache' = cache
       /\ ret'.op \in {"getCacheStats", "none"} => cache' = cache]_vars

\* C24 witness: a call whose fetch failed was answered from an expired entry,
\* which is still in the map together with an entry stale by more than 10
\* minutes past its expiry
C24_Witness ==
    /\ ret.op = "getQuestionsByCategory" /\ ret.upstream = "failed" /\ ret.status = "ok"
    /\ HasEntry(cache, ret.categoryId) /\ now > cache[ret.categoryId].expiry
    /\ \E key \in DOMAIN cache :
          HasEntry(cache, key) /\ now > cache[key].expiry + 600000

(***************************************************************************)
(* Properties of the size of the answer (Spec)                             *)
(***************************************************************************)
\* C25: whatever the category, the limit and the earlier calls and upstream
\* outcomes, a list returned by getQuestionsByCategory has at least one and at
\* most limit items, and no entry of the cache holds an empty batch.  (A call
\* that returns no list has thrown the TypeError of a categoryId that names a
\* property of Object.prototype.)
C25_AnswerNonEmptyAtMostLimit ==
    /\ (ret.op = "getQuestionsByCategory" /\ ret.status = "ok") =>
          /\ Len(ret.questions) >= 1
          /\ Len(ret.questions) <= ret.limit
    /\ (ret.op = "getQuestionsByCategory" /\ ret.status \notin {"ok", "pending"}) =>
          /\ ret.categoryId \in ObjectPrototypeKeys
          /\ ret.questions = <<>>
    /\ \A key \in DOMAIN cache :
          HasEntry(cache, key) => Len(cache[key].questions) >= 1

\* C25 witness: a call with limit 50 for a category with one hardcoded
\* question, after a failed fetch and without entry, has returned one item
C25_Witness ==
    /\ ret.op = "getQuestionsByCategory" /\ ret.upstream = "failed" /\ ret.status = "ok"
    /\ ret.categoryId = "sports" /\ ret.limit = 50
    /\ ~HasEntry(cache, "sports")
    /\ Len(ret.questions) = 1


\* C26 (as stated): under trades with positive integer shares and a positive
\* price, interleaved with quote requests, the balance is a number that is at
\* least 0 and every position present holds at least one share
C26_BalanceNonNegativeSharesPositive ==
    /\ balance # NaN
    /\ balance >= 0
    /\ \A key \in LedgerKeys :
           portfolio[key] # NoAddress => heap[portfolio[key]].shares >= 1


\* C27 (as stated): for every symbol, the time stored with its quote-cache
\* entry never decreases, under any interleaving of concurrent getQuote calls
C27_StoredAtNeverDecreases ==
    [][\A key \in QuoteKeys :
           (quoteCache[key] # NoQuote /\ quoteCache'[key] # NoQuote)
               => quoteCache'[key].timestamp >= quoteCache[key].timestamp]_vars


\* number of entries of the quote cache
QuoteCacheSize(qc) == Cardinality({key \in QuoteKeys : qc[key] # NoQuote})

\* C28: no step of getQuote, buy or sell removes an entry of the quote cache,
\* so the number of its entries never decreases
C28_QuoteCacheNeverShrinks ==
    [][/\ \A key \in QuoteKeys : quoteCache[key] # NoQuote => quoteCache'[key] # NoQuote
       /\ QuoteCacheSize(quoteCache') >= QuoteCacheSize(quoteCache)]_vars

\* both keys are cached, trades were made, and a request for a cached key has
\* just failed
C28_Witness ==
    /\ QuoteCacheSize(quoteCache) = Cardinality(QuoteKeys)
    /\ trades >= 2
    /\ ledgerRet.status = "ok"
    /\ quoteRet.upstream = "failed"


\* every stored game session has correctAnswers <= totalQuestions
SessionsConsistent(sessions) ==
    \A id \in DOMAIN sessions : sessions[id].correctAnswers <= sessions[id].totalQuestions

\* a PATCH to a stored session whose correctAnswers exceeds its totalQuestions
\* or that names another key is answered 400 and leaves the sessions unchanged
PatchRefusedUnchanged ==
    (/\ sessionRet' # sessionRet
     /\ sessionRet'.op = "PATCH"
     /\ sessionRet'.id \in DOMAIN gameSessions
     /\ sessionRet'.excess \/ sessionRet'.unknownKey)
        => (sessionRet'.status = 400 /\ gameSessions' = gameSessions)

\* C29 (as stated): after any sequence of POST, PATCH and DELETE requests
\* every stored session has correctAnswers <= totalQuestions, and a PATCH that
\* exceeds totalQuestions or names an undeclared key is answered 400 and
\* changes nothing
C29_StoredSessionsConsistent ==
    [][SessionsConsistent(gameSessions') /\ PatchRefusedUnchanged]_vars


====
